---- MODULE Spec2Model ----
(***************************************************************************)
(* Model of the market-data acquisition cycle of cryptoreporter:           *)
(*   data_fetcher.py   calculate_percentage, the crypto and equity         *)
(*                     resolvers, fetch_market_data                        *)
(*   config.py         REQUIRED_KEYS, validate_data                        *)
(*   infographic_generator.py   the row formatting of the renderer         *)
(*                                                                         *)
(* Python values: an Optional[float] is the empty tuple (None) or a        *)
(* one-element tuple; a percentage is an exact fraction num/den in lowest  *)
(* terms with den > 0, so 0.0 is [num |-> 0, den |-> 1].                    *)
(***************************************************************************)
EXTENDS Integers, Sequences, FiniteSets, TLC

VARIABLES
    pc,          \* position of fetch_market_data / of the unit harness
    idx,         \* index of the next instrument of the running loop
    report_time, \* [hour, minute] computed at entry of fetch_market_data
    latest,      \* key -> Optional price: the locals jse, zarusd, ... sp500
    prices,      \* Optional response of cg.get_price (coin -> Optional price)
    result,      \* the dict under construction
    ret,         \* [done, value]: what fetch_market_data returned
    faults,      \* number of non-nominal provider responses seen so far
    last,        \* how the lookups of the last step ended
    failed,      \* keys of the instruments with a failed historical lookup
    unit         \* inputs and outputs of one resolver / engine invocation

vars ==
    <<pc, idx, report_time, latest, prices, result, ret, faults, last, failed,
      unit>>

----------------------------------------------------------------------------
(* Bounds of the model *)

\* at most this many provider responses of one cycle are non-nominal
MaxFaults == 2
\* longest price series a provider returns in a resolver invocation
MaxLen == 3

----------------------------------------------------------------------------
(* Python values *)

None == <<>>
Some(x) == <<x>>

Abs(x) == IF x < 0 THEN -x ELSE x

RECURSIVE GCD(_, _)
GCD(a, b) == IF b = 0 THEN a ELSE GCD(b, a % b)

\* the float n/d (d # 0) as an exact fraction
Real(n, d) ==
    LET g == GCD(Abs(n), Abs(d))
        s == IF d < 0 THEN -1 ELSE 1
    IN  [num |-> s * (n \div g), den |-> s * (d \div g)]

Zero == [num |-> 0, den |-> 1]

\* Python truthiness of an Optional[float]: None and 0 are falsy
Truthy(p) == p # None /\ p[1] # 0

----------------------------------------------------------------------------
(* Percentage engine *)

calculate_percentage(old, new) ==
    IF old = None \/ new = None THEN Zero
    ELSE IF old[1] = 0 THEN Zero
    ELSE Real((new[1] - old[1]) * 100, old[1])

----------------------------------------------------------------------------
(* Time.  Instants are seconds on an abstract epoch placed at January 1   *)
(* 00:00 UTC of the current year; CoinGecko stamps its points in           *)
(* milliseconds, yfinance rows carry instants.                             *)

SecondsPerDay == 86400
SecondsPerHour == 3600
MsPerSecond == 1000

\* datetime.now(timezone.utc) of the modelled run: January 16, 00:00 UTC
Now == 15 * SecondsPerDay

\* datetime(year, 1, 1, tzinfo=timezone.utc)
YearStartUTC == 0
\* tz.localize(datetime(now.year, 1, 1)) for Africa/Johannesburg (UTC+2)
YearStartSAST == YearStartUTC - 2 * SecondsPerHour

----------------------------------------------------------------------------
(* Provider responses.  A series response is [kind, prices]: kind "raise"  *)
(* is an exception out of the client, "nokey" a body without 'prices',     *)
(* "ok" a body whose 'prices' is the sequence of <<timestamp, price>>.     *)

Raise == [kind |-> "raise", prices |-> <<>>]
NoKey == [kind |-> "nokey", prices |-> <<>>]
Series(ps) == [kind |-> "ok", prices |-> ps]

\* min(prices, key=lambda x: abs(x[0] - target_ts)): the first minimal element
RECURSIVE ClosestFrom(_, _, _, _)
ClosestFrom(ps, target_ts, i, best) ==
    IF i > Len(ps) THEN best
    ELSE IF Abs(ps[i][1] - target_ts) < Abs(best[1] - target_ts)
         THEN ClosestFrom(ps, target_ts, i + 1, ps[i])
         ELSE ClosestFrom(ps, target_ts, i + 1, best)

RECURSIVE ClosestLastFrom(_, _, _, _)
ClosestLastFrom(ps, target_ts, i, best) ==
    IF i > Len(ps) THEN best
    ELSE IF Abs(ps[i][1] - target_ts) <= Abs(best[1] - target_ts)
         THEN ClosestLastFrom(ps, target_ts, i + 1, ps[i])
         ELSE ClosestLastFrom(ps, target_ts, i + 1, best)

\* a min() that keeps the last of several equally near points
ClosestLast(ps, target_ts) == ClosestLastFrom(ps, target_ts, 2, ps[1])

Closest(ps, target_ts) == ClosestFrom(ps, target_ts, 2, ps[1])

\* now - timedelta(days=days)
HistTarget(now, days) == now - days * SecondsPerDay

\* timedelta(hours=12)
HistWindow == 12 * SecondsPerHour

\* the windows fetch_coin_historical asks the provider for, in call order
fetch_coin_historical_queries(now, days) ==
    << [from |-> HistTarget(now, days) - HistWindow,
        to   |-> HistTarget(now, days) + HistWindow] >>

\* resp is the response to the one query above
fetch_coin_historical(resp, now, days) ==
    IF resp.kind = "raise" THEN None
    ELSE LET ps == IF resp.kind = "nokey" THEN <<>> ELSE resp.prices
             target_ts == HistTarget(now, days) * MsPerSecond
         IN  IF ps = <<>> THEN None
             ELSE Some(Closest(ps, target_ts)[2])

\* the window get_coin_ytd_price asks for
get_coin_ytd_price_queries ==
    << [from |-> YearStartUTC, to |-> YearStartUTC + SecondsPerDay] >>

\* history.get('prices', [[None, None]])[0][1]; [][0] raises IndexError
get_coin_ytd_price(resp) ==
    IF resp.kind = "raise" THEN None
    ELSE IF resp.kind = "nokey" THEN None
    ELSE IF resp.prices = <<>> THEN None
    ELSE Some(resp.prices[1][2])

----------------------------------------------------------------------------
(* yfinance.  A history response is [kind, rows], rows the data frame as a *)
(* sequence of <<instant, Close>>.                                         *)

DfRaise == [kind |-> "raise", rows |-> <<>>]
Df(rows) == [kind |-> "ok", rows |-> rows]

\* max(5, days // 5)
BufferDays(days) == IF days \div 5 > 5 THEN days \div 5 ELSE 5

\* df['Close'].iloc[-days-1] when the frame has at least days + 1 rows
fetch_historical(resp, days) ==
    IF resp.kind = "raise" THEN None
    ELSE IF resp.rows # <<>> /\ Len(resp.rows) >= days + 1
         THEN Some(resp.rows[Len(resp.rows) - days][2])
         ELSE None

\* df[df.index >= start]
RowsFrom(rows, start) == SelectSeq(rows, LAMBDA r : r[1] >= start)

\* the window get_ytd_reference_price asks for: 14 days before January 1
\* to 30 days after
get_ytd_reference_price_queries ==
    << [from |-> YearStartSAST - 14 * SecondsPerDay,
        to   |-> YearStartSAST + 30 * SecondsPerDay] >>

get_ytd_reference_price(resp) ==
    IF resp.kind = "raise" THEN None
    ELSE IF resp.rows # <<>> /\ RowsFrom(resp.rows, YearStartSAST) # <<>>
         THEN Some(RowsFrom(resp.rows, YearStartSAST)[1][2])
         ELSE None

\* a Ticker as get_latest_price sees it: fast_info, info, 7-day history
TickerRaise ==
    [kind |-> "raise", last_price |-> None, regularMarketPrice |-> None,
     rows |-> <<>>]
Ticker(fast, info, rows) ==
    [kind |-> "ok", last_price |-> fast, regularMarketPrice |-> info,
     rows |-> rows]

get_latest_price(t) ==
    IF t.kind = "raise" THEN None
    ELSE IF t.last_price # None THEN t.last_price
    ELSE IF t.regularMarketPrice # None THEN t.regularMarketPrice
    ELSE IF t.rows # <<>> THEN Some(t.rows[Len(t.rows)][2])
    ELSE None

----------------------------------------------------------------------------
(* The instrument basket *)

\* the tickers of fetch_market_data, in the order of its dict literal
equities ==
    << [key |-> "JSEALSHARE", ticker |-> "^J203.JO"],
       [key |-> "USDZAR",     ticker |-> "ZAR=X"],
       [key |-> "EURZAR",     ticker |-> "EURZAR=X"],
       [key |-> "GBPZAR",     ticker |-> "GBPZAR=X"],
       [key |-> "BRENT",      ticker |-> "BZ=F"],
       [key |-> "GOLD",       ticker |-> "GC=F"],
       [key |-> "SP500",      ticker |-> "^GSPC"] >>

crypto_ids ==
    << "bitcoin", "ethereum", "binancecoin", "ripple", "cardano",
       "solana", "dogecoin", "polkadot", "tron", "litecoin" >>

symbol_map ==
    [c \in {crypto_ids[i] : i \in 1..Len(crypto_ids)} |->
        CASE c = "bitcoin" -> "BTC"   [] c = "ethereum" -> "ETH"
          [] c = "binancecoin" -> "BNB" [] c = "ripple" -> "XRP"
          [] c = "cardano" -> "ADA"   [] c = "solana" -> "SOL"
          [] c = "dogecoin" -> "DOGE" [] c = "polkadot" -> "DOT"
          [] c = "tron" -> "TRX"      [] c = "litecoin" -> "LTC"]

\* f"{name}ZAR"
CoinKey(coin) == symbol_map[coin] \o "ZAR"

REQUIRED_KEYS ==
    << "BTCZAR", "ETHZAR", "BNBZAR", "XRPZAR", "ADAZAR",
       "SOLZAR", "DOGEZAR", "DOTZAR", "TRXZAR", "LTCZAR" >>

\* validate_data returns True; otherwise it raises ValueError
validate_data(data) ==
    \A i \in 1..Len(REQUIRED_KEYS) : REQUIRED_KEYS[i] \in DOMAIN data

EquityKeys == {equities[i].key : i \in 1..Len(equities)}
CoinKeys == {CoinKey(crypto_ids[i]) : i \in 1..Len(crypto_ids)}

----------------------------------------------------------------------------
(* The provider of one cycle.  Each lookup has one nominal response and    *)
(* its failures; a cycle sees at most MaxFaults failures.                  *)

Quote == [today |-> 110, day |-> 100, month |-> 88, ytd |-> 55]

\* a series with one point, half a minute before the asked instant
CoinSeriesResponses(at, price) ==
    { Series(<< <<at * MsPerSecond - 30 * MsPerSecond, price>> >>),
      Series(<<>>), Raise }

\* a frame of n daily rows ending yesterday; the row `days` before the last
\* one closes at price
EquityFrame(n, days, price) ==
    [j \in 1..n |-> << Now - (n - j + 1) * SecondsPerDay,
                       IF j = n - days THEN price ELSE Quote.today >>]

EquityHistResponses(days, price) ==
    { Df(EquityFrame(days + BufferDays(days), days, price)),
      Df(EquityFrame(days, days, price)), DfRaise }

\* rows from December 31 on, the first of the year closing at price
EquityYtdResponses(price) ==
    { Df(<< <<YearStartSAST - SecondsPerDay, Quote.today>>,
            <<YearStartSAST + SecondsPerDay, price>>,
            <<YearStartSAST + 2 * SecondsPerDay, Quote.today>> >>),
      Df(<< <<YearStartSAST - SecondsPerDay, Quote.today>> >>),
      DfRaise }

TickerResponses ==
    { Ticker(Some(Quote.today), None, <<>>),
      Ticker(None, None, <<>>),
      Ticker(Some(0), None, <<>>),
      TickerRaise }

\* how a lookup ended: an exception, no usable data, or a price
Outcome(kind, p) ==
    IF kind = "raise" THEN "raise" ELSE IF p = None THEN "nodata" ELSE "ok"

\* a lookup that resolved to no usable price counts as one failure
FaultsOf(p) == IF Truthy(p) THEN 0 ELSE 1

\* cg.get_price: an exception, or a body holding the coins not in absent
PriceResponses(budget) ==
    { [kind |-> "raise", body |-> <<>>] } \cup
    { [kind |-> "ok",
       body |-> [c \in DOMAIN symbol_map \ absent |-> [zar |-> Quote.today]]] :
      absent \in { a \in SUBSET DOMAIN symbol_map : Cardinality(a) <= budget } }

PriceFaults(r) ==
    IF r.kind = "raise" THEN 1
    ELSE Cardinality(DOMAIN symbol_map \ DOMAIN r.body)

----------------------------------------------------------------------------
(* fetch_market_data *)

\* report_time.strftime("%Y-%m-%d %H:%M") for the run's UTC hour and minute
ReportTime(utc_hour, utc_minute) ==
    IF utc_hour = 3 THEN [hour |-> 5, minute |-> 0]
    ELSE IF utc_hour = 15 THEN [hour |-> 17, minute |-> 0]
    ELSE [hour |-> (utc_hour + 2) % 24, minute |-> utc_minute]

\* ret while the function runs, and after its return statement
Running == [done |-> FALSE, value |-> None]
Returned(v) == [done |-> TRUE, value |-> v]

\* an exception that leaves the function with the dict built so far
CriticalErrorPartial(partial) == Returned(Some(partial))

\* except Exception: print, return None
CriticalError(partial) == Returned(None)

Entry(today, day_hist, month_hist, ytd_hist) ==
    [Today   |-> today,
     Change  |-> calculate_percentage(day_hist, today),
     Monthly |-> calculate_percentage(month_hist, today),
     YTD     |-> calculate_percentage(ytd_hist, today)]

\* a store that drops an instrument without a current price
StoreSkipMissing(res, key, entry) ==
    IF entry.Today = None THEN res
    ELSE [k \in DOMAIN res \cup {key} |-> IF k = key THEN entry ELSE res[k]]

\* result[key] = entry
Store(res, key, entry) ==
    [k \in DOMAIN res \cup {key} |-> IF k = key THEN entry ELSE res[k]]

\* prices.get(coin, {}).get("zar")
TodayOf(body, coin) ==
    IF coin \in DOMAIN body THEN Some(body[coin].zar) ELSE None

NoUnit ==
    [fn |-> "none", old |-> None, new |-> None, resp |-> Raise, days |-> 0,
     out |-> None, queries |-> <<>>, done |-> FALSE]

NoLast == [key |-> "", today |-> "", day |-> "", month |-> "", ytd |-> ""]

Init ==
    /\ pc = "jse"
    /\ idx = 1
    /\ report_time \in { ReportTime(h, 42) : h \in {3, 9} }
    /\ latest = <<>>
    /\ prices = None
    /\ result = <<>>
    /\ ret = Running
    /\ faults = 0
    /\ last = NoLast
    /\ failed = {}
    /\ unit = NoUnit

\* lines 122-130: the JSE index first; without it the cycle returns None
GetJSE ==
    /\ pc = "jse"
    /\ \E t \in TickerResponses :
         LET price == get_latest_price(t) IN
         /\ faults + FaultsOf(price) <= MaxFaults
         /\ faults' = faults + FaultsOf(price)
         /\ last' = [NoLast EXCEPT !.key = equities[1].key, !.today = Outcome(t.kind, price)]
         /\ IF Truthy(price)
            THEN /\ latest' = [k \in {equities[1].key} |-> price]
                 /\ pc' = "latest"
                 /\ idx' = 2
                 /\ ret' = ret
            ELSE /\ ret' = Returned(None)
                 /\ pc' = "done"
                 /\ UNCHANGED <<latest, idx>>
    /\ UNCHANGED <<report_time, prices, result, failed, unit>>

\* lines 132-137: zarusd ... sp500
GetLatest ==
    /\ pc = "latest"
    /\ \E t \in TickerResponses :
         LET price == get_latest_price(t) IN
         /\ faults + FaultsOf(price) <= MaxFaults
         /\ faults' = faults + FaultsOf(price)
         /\ last' = [NoLast EXCEPT !.key = equities[idx].key, !.today = Outcome(t.kind, price)]
         /\ latest' = [k \in DOMAIN latest \cup {equities[idx].key} |->
                          IF k = equities[idx].key THEN price ELSE latest[k]]
    /\ IF idx = Len(equities)
       THEN pc' = "build" /\ idx' = 1
       ELSE pc' = pc /\ idx' = idx + 1
    /\ UNCHANGED <<report_time, prices, result, ret, failed, unit>>

\* lines 140-184: one instrument of the dict literal
BuildEntry ==
    /\ pc = "build"
    /\ \E rd \in EquityHistResponses(1, Quote.day),
          rm \in EquityHistResponses(30, Quote.month),
          ry \in EquityYtdResponses(Quote.ytd) :
         LET key   == equities[idx].key
             d     == fetch_historical(rd, 1)
             m     == fetch_historical(rm, 30)
             y     == get_ytd_reference_price(ry)
             n     == FaultsOf(d) + FaultsOf(m) + FaultsOf(y)
             base  == IF idx = 1
                      THEN [k \in {"timestamp"} |-> report_time]
                      ELSE result
         IN  /\ faults + n <= MaxFaults
             /\ faults' = faults + n
             /\ last' = [NoLast EXCEPT !.key = key, !.day = Outcome(rd.kind, d),
                                       !.month = Outcome(rm.kind, m),
                                       !.ytd = Outcome(ry.kind, y)]
             /\ failed' = IF d = None \/ m = None
                          THEN failed \cup {key} ELSE failed
             /\ result' = Store(base, key, Entry(latest[key], d, m, y))
    /\ IF idx = Len(equities)
       THEN pc' = "get_price" /\ idx' = 1
       ELSE pc' = pc /\ idx' = idx + 1
    /\ UNCHANGED <<report_time, latest, prices, ret, unit>>

\* line 198: the batched current-price call
GetPrice ==
    /\ pc = "get_price"
    /\ \E r \in PriceResponses(MaxFaults - faults) :
         /\ faults + PriceFaults(r) <= MaxFaults
         /\ faults' = faults + PriceFaults(r)
         /\ last' = [NoLast EXCEPT !.key = "get_price", !.today = r.kind]
         /\ IF r.kind = "raise"
            THEN /\ ret' = CriticalError(result)
                 /\ pc' = "done"
                 /\ prices' = prices
            ELSE /\ prices' = Some(r.body)
                 /\ pc' = "coins"
                 /\ ret' = ret
    /\ UNCHANGED <<idx, report_time, latest, result, failed, unit>>

\* lines 199-211: one coin of the loop
CoinStep ==
    /\ pc = "coins"
    /\ \E rd \in CoinSeriesResponses(HistTarget(Now, 1), Quote.day),
          rm \in CoinSeriesResponses(HistTarget(Now, 30), Quote.month),
          ry \in CoinSeriesResponses(YearStartUTC + 60, Quote.ytd) :
         LET coin  == crypto_ids[idx]
             today == TodayOf(prices[1], coin)
             d     == fetch_coin_historical(rd, Now, 1)
             m     == fetch_coin_historical(rm, Now, 30)
             y     == get_coin_ytd_price(ry)
             n     == FaultsOf(d) + FaultsOf(m) + FaultsOf(y)
         IN  /\ faults + n <= MaxFaults
             /\ faults' = faults + n
             /\ last' = [key |-> CoinKey(coin),
                         today |-> IF today = None THEN "absent" ELSE "ok",
                         day |-> Outcome(rd.kind, d),
                         month |-> Outcome(rm.kind, m),
                         ytd |-> Outcome(ry.kind, y)]
             /\ failed' = IF d = None \/ m = None
                          THEN failed \cup {CoinKey(coin)} ELSE failed
             /\ result' = Store(result, CoinKey(coin), Entry(today, d, m, y))
    /\ IF idx = Len(crypto_ids)
       THEN pc' = "return" /\ idx' = 1
       ELSE pc' = pc /\ idx' = idx + 1
    /\ UNCHANGED <<report_time, latest, prices, ret, unit>>

\* line 213
Return ==
    /\ pc = "return"
    /\ ret' = Returned(Some(result))
    /\ pc' = "done"
    /\ UNCHANGED <<idx, report_time, latest, prices, result, faults, last,
                   failed, unit>>

Next ==
    \/ GetJSE
    \/ GetLatest
    \/ BuildEntry
    \/ GetPrice
    \/ CoinStep
    \/ Return

Spec == Init /\ [][Next]_vars

----------------------------------------------------------------------------
(* One invocation of the percentage engine or of a resolver, on inputs     *)
(* drawn from bounded sets.                                                *)

\* sequences of at most n elements of S
SeqsUpTo(S, n) == UNION { [1..k -> S] : k \in 0..n }

\* a provider lists its points in time order
InTimeOrder(ps) == \A i \in 1..(Len(ps) - 1) : ps[i][1] <= ps[i + 1][1]

TimedSeries(stamps, closes) ==
    { ps \in SeqsUpTo(stamps \X closes, MaxLen) : InTimeOrder(ps) }

UnitPrices == {5, 7}

\* operands of calculate_percentage
UnitOperands == {None} \cup { Some(v) : v \in {-50, -40, 0, 90, 100, 110} }

\* points one or two seconds around the instant fetch_coin_historical targets
HistStamps(days) ==
    { HistTarget(Now, days) * MsPerSecond + o * MsPerSecond : o \in {-2, -1, 1, 2} }

\* points around January 1 00:00 UTC, in milliseconds
CoinYtdStamps == { YearStartUTC * MsPerSecond + o * MsPerSecond : o \in {-1, 0, 1} }

\* daily rows around January 1 00:00 SAST
RefYtdStamps == { YearStartSAST + o * SecondsPerDay : o \in {-1, 0, 1} }

UnitInput(fn, old, new, resp, days) ==
    [fn |-> fn, old |-> old, new |-> new, resp |-> resp, days |-> days,
     out |-> None, queries |-> <<>>, done |-> FALSE]

UnitInputs ==
    { UnitInput("calculate_percentage", old, new, Raise, 0) :
        old \in UnitOperands, new \in UnitOperands }
    \cup
    UNION { { UnitInput("fetch_coin_historical", None, None, r, days) :
                r \in { Series(ps) : ps \in TimedSeries(HistStamps(days), UnitPrices) }
                      \cup {NoKey, Raise} } : days \in {1, 30} }
    \cup
    { UnitInput("get_coin_ytd_price", None, None, r, 0) :
        r \in { Series(ps) : ps \in TimedSeries(CoinYtdStamps, UnitPrices) }
              \cup {NoKey, Raise} }
    \cup
    { UnitInput("get_ytd_reference_price", None, None, r, 0) :
        r \in { Df(rows) : rows \in TimedSeries(RefYtdStamps, UnitPrices) }
              \cup {DfRaise} }

InitUnit ==
    /\ pc = "unit"
    /\ idx = 1
    /\ report_time = ReportTime(9, 42)
    /\ latest = <<>>
    /\ prices = None
    /\ result = <<>>
    /\ ret = Running
    /\ faults = 0
    /\ last = NoLast
    /\ failed = {}
    /\ unit \in UnitInputs

Finish(out, queries) ==
    /\ unit' = [unit EXCEPT !.out = out, !.queries = queries, !.done = TRUE]
    /\ UNCHANGED <<pc, idx, report_time, latest, prices, result, ret, faults,
                   last, failed>>

ApplyPercentage ==
    /\ pc = "unit" /\ ~unit.done /\ unit.fn = "calculate_percentage"
    /\ Finish(calculate_percentage(unit.old, unit.new), <<>>)

CallCoinHistorical ==
    /\ pc = "unit" /\ ~unit.done /\ unit.fn = "fetch_coin_historical"
    /\ Finish(fetch_coin_historical(unit.resp, Now, unit.days),
              fetch_coin_historical_queries(Now, unit.days))

CallCoinYtd ==
    /\ pc = "unit" /\ ~unit.done /\ unit.fn = "get_coin_ytd_price"
    /\ Finish(get_coin_ytd_price(unit.resp), get_coin_ytd_price_queries)

CallYtdReference ==
    /\ pc = "unit" /\ ~unit.done /\ unit.fn = "get_ytd_reference_price"
    /\ Finish(get_ytd_reference_price(unit.resp), get_ytd_reference_price_queries)

NextUnit ==
    \/ ApplyPercentage
    \/ CallCoinHistorical
    \/ CallCoinYtd
    \/ CallYtdReference

SpecUnit == InitUnit /\ [][NextUnit]_vars

----------------------------------------------------------------------------
(* Properties of a cycle *)

InstrumentKeys ==
    { "JSEALSHARE", "USDZAR", "EURZAR", "GBPZAR", "BRENT", "GOLD", "SP500",
      "BTCZAR", "ETHZAR", "BNBZAR", "XRPZAR", "ADAZAR",
      "SOLZAR", "DOGEZAR", "DOTZAR", "TRXZAR", "LTCZAR" }

ReturnedSnapshot == ret.done /\ ret.value # None
Snapshot == ret.value[1]

\* C1: a snapshot that fetch_market_data returns holds an entry for every
\* configured instrument (the ten keys validate_data requires and the seven
\* equity, FX and commodity keys), whatever the individual lookups did.
C1_SnapshotHasEveryInstrument ==
    ReturnedSnapshot =>
        /\ InstrumentKeys \subseteq DOMAIN Snapshot
        /\ validate_data(Snapshot)

\* a returned snapshot of a cycle that used up its failures, one of them a
\* coin missing from the batched response, another a lookup that raised
C1_Witness ==
    /\ ReturnedSnapshot
    /\ faults = MaxFaults
    /\ \E k \in CoinKeys : Snapshot[k].Today = None
    /\ "raise" \in {last.day, last.month, last.ytd}

BatchCallFailed == last.key = "get_price" /\ last.today = "raise"

\* C2: when the batched current-price call fails, fetch_market_data returns
\* None: it ends by a return statement, not by an exception, and what it
\* returns is not the partial snapshot built before the call.
C2_BatchFailureReturnsNone ==
    BatchCallFailed => ret.done /\ ret.value = None

\* the batched call failed after the seven equity entries were built
C2_Witness ==
    /\ BatchCallFailed
    /\ ret.done
    /\ EquityKeys \subseteq DOMAIN result

\* C3: a cycle returns None only when the batched current-price call failed;
\* a failure of one instrument's lookup never decides the cycle's outcome.
C3_AbortOnlyOnBatchFailure ==
    (ret.done /\ ret.value = None) => BatchCallFailed

HasFailureStatus(snapshot, key) ==
    \/ "Status" \in DOMAIN snapshot[key]
    \/ "status" \in DOMAIN snapshot /\ key \in DOMAIN snapshot["status"]

NominalEntry ==
    [Today   |-> Some(Quote.today),
     Change  |-> Real((Quote.today - Quote.day) * 100, Quote.day),
     Monthly |-> Real((Quote.today - Quote.month) * 100, Quote.month),
     YTD     |-> Real((Quote.today - Quote.ytd) * 100, Quote.ytd)]

\* C4: when the historical lookup of instrument A fails and the lookups of
\* instrument B succeed, the snapshot holds B's correct metrics, and A's
\* entry with a zero for the failed horizon and a Failure status for A.
C4_FaultIsolationWithStatus ==
    ReturnedSnapshot =>
        \A a \in failed :
            /\ \/ Snapshot[a].Change = Zero
               \/ Snapshot[a].Monthly = Zero
            /\ HasFailureStatus(Snapshot, a)
            /\ \A b \in InstrumentKeys \ failed :
                   (Snapshot[b].Today = Some(Quote.today)
                        /\ Snapshot[b].YTD # Zero)
                   => Snapshot[b] = NominalEntry

IsNumber(p) == p # None
IsFinite(x) == x.den > 0

\* C5: every entry of a returned snapshot has the shape the renderer needs:
\* Today is a number, never None, and Change, Monthly and YTD are finite
\* numbers.
C5_EntriesHaveRendererShape ==
    ReturnedSnapshot =>
        \A k \in InstrumentKeys :
            /\ IsNumber(Snapshot[k].Today)
            /\ IsFinite(Snapshot[k].Change)
            /\ IsFinite(Snapshot[k].Monthly)
            /\ IsFinite(Snapshot[k].YTD)

----------------------------------------------------------------------------
(* Properties of the percentage engine and of the resolvers *)

Applied(fn) == pc = "unit" /\ unit.done /\ unit.fn = fn

\* (new - old) / |old| * 100, and 0.0 without an operand or with old = 0
percentChange(old, new) ==
    IF old = None \/ new = None THEN Zero
    ELSE IF old[1] = 0 THEN Zero
    ELSE Real((new[1] - old[1]) * 100, Abs(old[1]))

\* C6: calculate_percentage(old, new) is 0.0 when an operand is absent or
\* old is zero, and (new - old) / |old| * 100 otherwise, for negative old too.
C6_PercentageUsesAbsoluteBaseline ==
    Applied("calculate_percentage") =>
        unit.out = percentChange(unit.old, unit.new)

TransientError == unit.resp.kind = "raise"

\* C7: a provider call that fails with a transient error is attempted again;
\* the failure reaches the caller only after at least two attempts, and then
\* as an absent value.
C7_FailedCallIsRetried ==
    (Applied("fetch_coin_historical") /\ TransientError) =>
        /\ Len(unit.queries) >= 2
        /\ unit.out = None

NarrowSeries ==
    IF unit.resp.kind = "ok" THEN unit.resp.prices ELSE <<>>

\* C8: when the narrow-window query returns an empty series the resolver
\* issues exactly one further, widened query; when it returns points, none.
C8_EmptyNarrowWindowIsWidened ==
    (Applied("fetch_coin_historical") /\ ~TransientError) =>
        Len(unit.queries) = (IF NarrowSeries = <<>> THEN 2 ELSE 1)

Distance(point) ==
    Abs(point[1] - HistTarget(Now, unit.days) * MsPerSecond)

\* position i holds a nearest point, and no earlier position holds one
FirstNearest(ps, i) ==
    /\ \A j \in 1..Len(ps) : Distance(ps[i]) <= Distance(ps[j])
    /\ \A j \in 1..(i - 1) : Distance(ps[j]) > Distance(ps[i])

\* C9: for a non-empty series fetch_coin_historical returns the price of the
\* point nearest to the target instant, the first one of several equally near.
C9_NearestTimestampFirstOnTie ==
    (Applied("fetch_coin_historical") /\ NarrowSeries # <<>>) =>
        \E i \in 1..Len(NarrowSeries) :
            /\ FirstNearest(NarrowSeries, i)
            /\ unit.out = Some(NarrowSeries[i][2])

\* a series of two equally near points, one before and one after the
\* target, with different prices: the earlier one is returned
C9_Witness ==
    /\ Applied("fetch_coin_historical")
    /\ unit.days = 30
    /\ Len(NarrowSeries) = 2
    /\ Distance(NarrowSeries[1]) = Distance(NarrowSeries[2])
    /\ NarrowSeries[1][1] # NarrowSeries[2][1]
    /\ NarrowSeries[1][2] = 5
    /\ NarrowSeries[2][2] = 7
    /\ unit.out = Some(5)

YtdRows ==
    IF unit.resp.kind # "ok" THEN <<>>
    ELSE IF unit.fn = "get_coin_ytd_price" THEN unit.resp.prices
    ELSE unit.resp.rows

YtdAnchor ==
    IF unit.fn = "get_coin_ytd_price" THEN YearStartUTC * MsPerSecond
    ELSE YearStartSAST

\* the price of the first point dated on or after the anchor
FirstOnOrAfter(ps, anchor) ==
    IF \E i \in 1..Len(ps) : ps[i][1] >= anchor
    THEN Some(ps[CHOOSE i \in 1..Len(ps) :
                    /\ ps[i][1] >= anchor
                    /\ \A j \in 1..(i - 1) : ps[j][1] < anchor][2])
    ELSE None

\* C10: both YTD resolvers return the price of the first point of the series
\* dated on or after January 1, never an earlier point, and None when the
\* series is empty or has no such point.
C10_YtdIsFirstPointOnOrAfterAnchor ==
    (Applied("get_coin_ytd_price") \/ Applied("get_ytd_reference_price")) =>
        unit.out = FirstOnOrAfter(YtdRows, YtdAnchor)

====
